---- MODULE Spec2Model ----
(***************************************************************************)
(* Chess-AI engine: evaluateBoard, minimax (alpha-beta), getRandomMove and *)
(* getBestMove, in the two variants the repository holds                   *)
(* (src/unnamed/part_000 and the first 105 lines of src/unnamed/part_001). *)
(*                                                                         *)
(* The engine works on a chess.js `Chess` object.  chess.js is an external *)
(* library; it is modelled here by a small rules engine with the same      *)
(* capability set (board, turn, moves, move, undo, isGameOver): chess on a *)
(* single file of NSq squares with kings, knights and rooks.               *)
(***************************************************************************)
EXTENDS Integers, Sequences, FiniteSets, TLC

\* ------------------------------------------------------------------ bounds
\* Number of squares of the board file.
NSq == 7
\* Largest depth argument passed to getBestMove / minimax.
MaxDepth == 3
\* Number of moves played from the starting position before the engine runs.
MaxPlay == 2
\* Half-moves without a capture after which the rules engine declares a draw.
DrawHalfMoves == 4
\* Largest number of occupied squares of a board handed to evaluateBoard alone.
MaxPieces == 2

\* ------------------------------------------------------------ JS numbers
\* Number.POSITIVE_INFINITY, as a value above every score of the model.
Infinity == 1000000
\* NaN: what arithmetic on `undefined` yields.  Every comparison with it is
\* false; Math.max / Math.min return it when an argument is NaN.
NaN == 7777777

IsNaN(x) == x = NaN
\* a + b
Add(a, b) == IF IsNaN(a) \/ IsNaN(b) THEN NaN ELSE a + b
\* -a
Neg(a) == IF IsNaN(a) THEN NaN ELSE 0 - a
\* a > b, a < b, a <= b
Gt(a, b) == ~IsNaN(a) /\ ~IsNaN(b) /\ a > b
Lt(a, b) == ~IsNaN(a) /\ ~IsNaN(b) /\ a < b
Le(a, b) == ~IsNaN(a) /\ ~IsNaN(b) /\ a <= b
MathMax(a, b) == IF IsNaN(a) \/ IsNaN(b) THEN NaN ELSE IF a >= b THEN a ELSE b
MathMin(a, b) == IF IsNaN(a) \/ IsNaN(b) THEN NaN ELSE IF a <= b THEN a ELSE b
IsFinite(x) == ~IsNaN(x) /\ x # Infinity /\ x # 0 - Infinity

\* ------------------------------------------------------------- variants
Variants == {"part_000", "part_001"}

\* ------------------------------------------------ rules engine (chess.js)
Squares == 1 .. NSq
Colors == {"w", "b"}
\* An empty square (chess.js: null).
Null == [type |-> "", color |-> ""]
Piece(t, c) == [type |-> t, color |-> c]
Other(c) == IF c = "w" THEN "b" ELSE "w"

EmptyBoard == [s \in Squares |-> Null]

\* new Chess(): K N R on the first three squares, r n k on the last three.
StartBoard ==
    [s \in Squares |->
        IF s = 1 THEN Piece("k", "w")
        ELSE IF s = 2 THEN Piece("n", "w")
        ELSE IF s = 3 THEN Piece("r", "w")
        ELSE IF s = NSq - 2 THEN Piece("r", "b")
        ELSE IF s = NSq - 1 THEN Piece("n", "b")
        ELSE IF s = NSq THEN Piece("k", "b")
        ELSE Null]

\* The squares strictly between a and b.
Between(a, b) == {s \in Squares : (a < s /\ s < b) \/ (b < s /\ s < a)}

\* The piece on `from` may go to `to` by its own way of moving.
Reaches(board, from, to) ==
    LET p == board[from]
        d == IF to > from THEN to - from ELSE from - to
    IN  /\ from # to
        /\ p # Null
        /\ board[to].color # p.color
        /\ CASE p.type = "k" -> d = 1
             [] p.type = "n" -> d = 2
             [] p.type = "r" -> \A s \in Between(from, to) : board[s] = Null
             [] OTHER -> FALSE

\* The board after the piece on m.from went to m.to.
MoveBoard(board, m) ==
    [board EXCEPT ![m.to] = board[m.from], ![m.from] = Null]

\* The side `c` has a king standing on a square the other side reaches.
InCheck(board, c) ==
    \E k \in Squares :
        /\ board[k] = Piece("k", c)
        /\ \E s \in Squares : board[s].color = Other(c) /\ Reaches(board, s, k)

MoveSet(board, c) ==
    {m \in [from : Squares, to : Squares] :
        /\ board[m.from].color = c
        /\ Reaches(board, m.from, m.to)
        /\ ~InCheck(MoveBoard(board, m), c)}

MoveKey(m) == m.from * (NSq + 1) + m.to

\* The elements of a set of moves in generation order (by square, then target).
RECURSIVE InOrder(_)
InOrder(S) ==
    IF S = {} THEN << >>
    ELSE LET first == CHOOSE m \in S : \A o \in S : MoveKey(m) <= MoveKey(o)
         IN  <<first>> \o InOrder(S \ {first})

\* game.board()
Board(g) == g.board
\* game.turn()
Turn(g) == g.turn
\* game.moves()
Moves(g) == InOrder(MoveSet(g.board, g.turn))

OnlyKings(board) == \A s \in Squares : board[s] = Null \/ board[s].type = "k"

\* game.isGameOver(): checkmate, stalemate or a draw.
IsGameOver(g) ==
    \/ MoveSet(g.board, g.turn) = {}
    \/ OnlyKings(g.board)
    \/ g.half >= DrawHalfMoves

\* game.move(m): the prior state is pushed on the history.
Move(g, m) ==
    [board |-> MoveBoard(g.board, m),
     turn |-> Other(g.turn),
     half |-> IF g.board[m.to] # Null THEN 0 ELSE g.half + 1,
     history |-> Append(g.history,
                        [board |-> g.board, turn |-> g.turn, half |-> g.half])]

\* game.undo(): restores the state the last move was made from; does nothing
\* on an empty history.
Undo(g) ==
    IF g.history = << >> THEN g
    ELSE LET old == g.history[Len(g.history)]
         IN  [board |-> old.board, turn |-> old.turn, half |-> old.half,
              history |-> SubSeq(g.history, 1, Len(g.history) - 1)]

NewChess == [board |-> StartBoard, turn |-> "w", half |-> 0, history |-> << >>]

\* ------------------------------------------------------------- evaluation
KnownTypes == {"p", "n", "b", "r", "q", "k"}

PIECE_VALUES(v) ==
    IF v = "part_000"
    THEN [p |-> 1, n |-> 3, b |-> 3, r |-> 5, q |-> 9, k |-> 0]
    ELSE [p |-> 10, n |-> 30, b |-> 30, r |-> 50, q |-> 90, k |-> 900]

\* const value = PIECE_VALUES[piece.type]          (part_000, line 21)
\* const value = PIECE_VALUES[piece.type] || 0     (part_001, line 25)
\* A missing key reads as undefined, which arithmetic turns into NaN.
PieceValue(v, t) ==
    IF t \in DOMAIN PIECE_VALUES(v)
    THEN PIECE_VALUES(v)[t]
    ELSE IF v = "part_000" THEN NaN ELSE 0

\* Mutant of Signed: the score taken from the perspective of the side to move.
SignedForMover(g, piece, value) ==
    IF piece.color = Turn(g) THEN value ELSE Neg(value)

\* totalEvaluation += piece.color === 'w' ? value : -value
Signed(g, piece, value) == IF piece.color = "w" THEN value ELSE Neg(value)

\* The loop of evaluateBoard over the squares s .. NSq, from the running total.
RECURSIVE EvalFrom(_, _, _, _)
EvalFrom(v, g, s, totalEvaluation) ==
    IF s > NSq THEN totalEvaluation
    ELSE LET piece == Board(g)[s]
             value == PieceValue(v, piece.type)
         IN  IF piece # Null
             THEN EvalFrom(v, g, s + 1,
                           Add(totalEvaluation, Signed(g, piece, value)))
             ELSE EvalFrom(v, g, s + 1, totalEvaluation)

evaluateBoard(v, g) == EvalFrom(v, g, 1, 0)

\* ------------------------------------------------------------------ state
VARIABLES
    variant,    \* which engine file is running
    game,       \* the Chess object the engine is handed
    plays,      \* number of moves played before the engine was called
    pc,         \* "idle", "root" (getBestMove's loop), "minimax", "eval", "done"
    entry,      \* the function that was called
    depth,      \* getBestMove's depth argument
    moves,      \* getBestMove: the shuffled move list
    idx,        \* getBestMove: number of moves of the loop already taken
    bestMove,   \* getBestMove: bestMove
    bestValue,  \* getBestMove: bestValue
    values,     \* getBestMove: the boardValue of each move taken so far
    isMaximizing, \* getBestMove (part_001): isMaximizing
    stack,      \* the activations of minimax, innermost last
    retv,       \* the value a minimax activation has just returned
    returned,   \* the activation that has just returned
    result,     \* what the called function returned
    game0,      \* the Chess object as it was when the function was called
    ui          \* the Game component: its state and its pending timers

vars == <<variant, game, plays, pc, entry, depth, moves, idx, bestMove,
          bestValue, values, isMaximizing, stack, retv, returned, result, game0,
          ui>>

\* null, as a move.
NoMove == [from |-> 0, to |-> 0]
\* const DEPTH = 3
DEPTH == 3
\* Moves applied and not undone, since the call.
Applied == Len(game.history) - Len(game0.history)
\* The traversal is cut off above this many outstanding moves.
MaxApplied == MaxDepth + 1

NoFrame ==
    [depth |-> 0, alpha |-> 0, beta |-> 0, isMaximizingPlayer |-> FALSE,
     moves |-> << >>, idx |-> 0, best |-> 0, pc |-> "none",
     alpha0 |-> 0, beta0 |-> 0, game0 |-> NewChess, pruned |-> FALSE]

\* The activation minimax(game, d, alpha, beta, flag) at its first line.
Frame(g, d, alpha, beta, flag) ==
    [depth |-> d, alpha |-> alpha, beta |-> beta, isMaximizingPlayer |-> flag,
     moves |-> << >>, idx |-> 0, best |-> 0, pc |-> "entry",
     alpha0 |-> alpha, beta0 |-> beta, game0 |-> g, pruned |-> FALSE]

Top == stack[Len(stack)]
Pop == SubSeq(stack, 1, Len(stack) - 1)
SetTop(f) == [stack EXCEPT ![Len(stack)] = f]

\* All orders of a list: what moves.sort(() => Math.random() - 0.5) can leave.
Shuffles(ms) ==
    {p \in [1 .. Len(ms) -> 1 .. Len(ms)] :
        \A i, j \in 1 .. Len(ms) : i # j => p[i] # p[j]}
Shuffled(ms, p) == [i \in 1 .. Len(ms) |-> ms[p[i]]]

\* ---------------------------------------------------------------- minimax
\* if (depth === 0 || game.isGameOver())
BaseCase(d, g) == d = 0 \/ IsGameOver(g)

\* Mutant of BreakCond: the comparison turned round, alpha <= beta.
BreakCondReversed(alpha, beta) == Le(alpha, beta)

\* Mutant of BreakCond: the cutoff only on beta < alpha.
BreakCondStrict(alpha, beta) == Lt(beta, alpha)

\* if (beta <= alpha) break;
BreakCond(alpha, beta) == Le(beta, alpha)

\* Mutant of UndoChild: the undo left out.
UndoChildSkipped(g) == g

\* Mutant of UndoChild: the undo made twice.
UndoChildTwice(g) == Undo(Undo(g))

\* game.undo() after the recursive call.
UndoChild(g) == Undo(g)

\* Mutant of StartEval: the running extremum started at 0.
StartEvalZero(flag) == 0

\* let maxEval = -Infinity / let minEval = Infinity
StartEval(flag) == IF flag THEN 0 - Infinity ELSE Infinity

\* First lines of minimax: the base case, or the set-up of the loop.
MinimaxEnter ==
    /\ pc = "minimax" /\ stack # << >> /\ Top.pc = "entry"
    /\ IF BaseCase(Top.depth, game)
       THEN /\ retv' = evaluateBoard(variant, game)
            /\ returned' = Top
            /\ stack' = Pop
            /\ pc' = "ret"
       ELSE /\ LET ms == Moves(game)
               IN stack' = SetTop([Top EXCEPT
                      !.moves = ms,
                      !.best = StartEval(Top.isMaximizingPlayer),
                      !.pc = IF ms = << >> THEN "return" ELSE "loop"])
            /\ UNCHANGED <<retv, returned, pc>>
    /\ UNCHANGED <<variant, game, plays, entry, depth, moves, idx, bestMove,
                   bestValue, values, isMaximizing, result, game0>>

\* for (const move of moves) { game.move(move); minimax(game, depth - 1, ...)
MinimaxApply ==
    /\ pc = "minimax" /\ stack # << >> /\ Top.pc = "loop"
    /\ Top.idx < Len(Top.moves)
    /\ Applied < MaxApplied
    /\ LET g2 == Move(game, Top.moves[Top.idx + 1])
       IN  /\ game' = g2
           /\ stack' = Append(stack,
                  Frame(g2, Top.depth - 1, Top.alpha, Top.beta,
                        ~Top.isMaximizingPlayer))
    /\ UNCHANGED <<variant, plays, pc, entry, depth, moves, idx, bestMove,
                   bestValue, values, isMaximizing, retv, returned, result,
                   game0>>

\* ... game.undo(); maxEval = Math.max(maxEval, evalValue);
\*     alpha = Math.max(alpha, evalValue); if (beta <= alpha) break; }
MinimaxReceive ==
    /\ pc = "ret" /\ stack # << >>
    /\ LET f == Top
           best2 == IF f.isMaximizingPlayer THEN MathMax(f.best, retv)
                    ELSE MathMin(f.best, retv)
           alpha2 == IF f.isMaximizingPlayer THEN MathMax(f.alpha, retv)
                     ELSE f.alpha
           beta2 == IF f.isMaximizingPlayer THEN f.beta
                    ELSE MathMin(f.beta, retv)
       IN  /\ game' = UndoChild(game)
           /\ stack' = SetTop([f EXCEPT
                  !.best = best2, !.alpha = alpha2, !.beta = beta2,
                  !.idx = f.idx + 1,
                  !.pruned = f.pruned \/ returned.pruned,
                  !.pc = IF BreakCond(alpha2, beta2) \/ f.idx + 1 = Len(f.moves)
                         THEN "return" ELSE "loop"])
           /\ pc' = "minimax"
    /\ UNCHANGED <<variant, plays, entry, depth, moves, idx, bestMove,
                   bestValue, values, isMaximizing, retv, returned, result,
                   game0>>

\* return maxEval; / return minEval;
MinimaxReturn ==
    /\ pc = "minimax" /\ stack # << >> /\ Top.pc = "return"
    /\ retv' = Top.best
    /\ returned' = [Top EXCEPT !.pruned = Top.pruned \/ Top.idx < Len(Top.moves)]
    /\ stack' = Pop
    /\ pc' = "ret"
    /\ UNCHANGED <<variant, game, plays, entry, depth, moves, idx, bestMove,
                   bestValue, values, isMaximizing, result, game0>>

\* ------------------------------------------------------------ getBestMove
\* Mutant of InitBestValue: the two sentinels exchanged.
InitBestValueSwapped(g) == IF Turn(g) = "w" THEN Infinity ELSE 0 - Infinity

\* let bestValue = game.turn() === 'w' ? -Infinity : Infinity;
InitBestValue(g) == IF Turn(g) = "w" THEN 0 - Infinity ELSE Infinity

\* Mutant of RootFlag: part_001 passes isMaximizing without the negation.
RootFlagNotNegated(v, g, isMax) == IF v = "part_000" THEN Turn(g) = "w" ELSE isMax

\* The flag getBestMove passes to minimax, g being the game after the move:
\* game.turn() === 'w' (part_000), !isMaximizing (part_001).
RootFlag(v, g, isMax) == IF v = "part_000" THEN Turn(g) = "w" ELSE ~isMax

\* The side getBestMove compares for, g being the game after the undo:
\* if (game.turn() === 'w') (part_000), if (isMaximizing) (part_001).
RootIsWhite(v, g, isMax) == IF v = "part_000" THEN Turn(g) = "w" ELSE isMax

\* Mutant of Improves: White keeps the smaller value, Black the larger.
ImprovesSwapped(isWhite, boardValue, best) ==
    IF isWhite THEN Lt(boardValue, best) ELSE Gt(boardValue, best)

\* Mutant of Improves: a move of equal value replaces the one kept.
ImprovesOrTies(isWhite, boardValue, best) ==
    IF isWhite THEN Le(best, boardValue) ELSE Le(boardValue, best)

\* if (boardValue > bestValue) / if (boardValue < bestValue)
Improves(isWhite, boardValue, best) ==
    IF isWhite THEN Gt(boardValue, best) ELSE Lt(boardValue, best)

\* game.undo() after minimax returned to getBestMove.
UndoRoot(g) == Undo(g)

\* return bestMove || moves[0];
OrFirst(best, ms) == IF best # NoMove THEN best ELSE ms[1]

\* Mutant of RootDepth: the depth passed on without the decrement.
RootDepthNotDecremented(v, d) == IF v = "part_000" THEN d ELSE DEPTH

\* The depth minimax is first called with: depth - 1, DEPTH - 1.
RootDepth(v, d) == IF v = "part_000" THEN d - 1 ELSE DEPTH - 1

\* getBestMove(game, d) up to its loop, the list shuffled into the order p.
CallGetBestMove(d, p) ==
    /\ pc = "idle"
    /\ entry' = "getBestMove"
    /\ depth' = d
    /\ game0' = game
    /\ LET ms == Moves(game)
       IN  IF Len(ms) = 0
           THEN /\ result' = NoMove
                /\ pc' = "done"
                /\ UNCHANGED <<moves, idx, bestMove, bestValue, values,
                               isMaximizing>>
           ELSE /\ moves' = Shuffled(ms, p)
                /\ bestMove' = NoMove
                /\ bestValue' = InitBestValue(game)
                /\ isMaximizing' = (Turn(game) = "w")
                /\ values' = << >>
                /\ idx' = 0
                /\ pc' = "root"
                /\ UNCHANGED result
    /\ UNCHANGED <<variant, game, plays, stack, retv, returned>>

\* for (const move of moves) { game.move(move); minimax(game, depth - 1, ...
RootApply ==
    /\ pc = "root" /\ idx < Len(moves)
    /\ LET g2 == Move(game, moves[idx + 1])
       IN  /\ game' = g2
           /\ stack' = <<Frame(g2, RootDepth(variant, depth), 0 - Infinity,
                               Infinity, RootFlag(variant, g2, isMaximizing))>>
    /\ pc' = "minimax"
    /\ UNCHANGED <<variant, plays, entry, depth, moves, idx, bestMove,
                   bestValue, values, isMaximizing, retv, returned, result,
                   game0>>

\* ... game.undo(); if (boardValue > bestValue) { bestValue = boardValue;
\*     bestMove = move; } }
RootReceive ==
    /\ pc = "ret" /\ stack = << >>
    /\ LET g3 == UndoRoot(game)
           better == Improves(RootIsWhite(variant, g3, isMaximizing),
                              retv, bestValue)
       IN  /\ game' = g3
           /\ bestValue' = IF better THEN retv ELSE bestValue
           /\ bestMove' = IF better THEN moves[idx + 1] ELSE bestMove
    /\ values' = Append(values, retv)
    /\ idx' = idx + 1
    /\ pc' = "root"
    /\ UNCHANGED <<variant, plays, entry, depth, moves, isMaximizing, stack,
                   retv, returned, result, game0>>

\* return bestMove || moves[0];
RootReturn ==
    /\ pc = "root" /\ idx = Len(moves)
    /\ result' = OrFirst(bestMove, moves)
    /\ pc' = "done"
    /\ UNCHANGED <<variant, game, plays, entry, depth, moves, idx, bestMove,
                   bestValue, values, isMaximizing, stack, retv, returned,
                   game0>>

\* ---------------------------------------------------------- getRandomMove
\* Mutant of RandomIndex: Math.round in place of Math.floor.
RandomIndexRounded(n) == 0 .. n

\* Math.floor(Math.random() * moves.length)
RandomIndex(n) == 0 .. n - 1

\* moves[i], undefined (read as null) outside the list.
At(ms, i) == IF i + 1 \in 1 .. Len(ms) THEN ms[i + 1] ELSE NoMove

getRandomMove ==
    /\ pc = "idle"
    /\ entry' = "getRandomMove"
    /\ game0' = game
    /\ LET ms == Moves(game)
       IN  IF Len(ms) = 0
           THEN result' = NoMove
           ELSE \E i \in RandomIndex(Len(ms)) : result' = At(ms, i)
    /\ pc' = "done"
    /\ UNCHANGED <<variant, game, plays, depth, moves, idx, bestMove,
                   bestValue, values, isMaximizing, stack, retv, returned>>

\* ------------------------------------------------------------------- play
\* A move made on the board before the engine is asked; the engine is handed
\* new Chess(game.fen()), whose history is empty.
Play(m) ==
    /\ pc = "idle" /\ plays < MaxPlay
    /\ game' = [Move(game, m) EXCEPT !.history = << >>]
    /\ plays' = plays + 1
    /\ UNCHANGED <<variant, pc, entry, depth, moves, idx, bestMove, bestValue,
                   values, isMaximizing, stack, retv, returned, result, game0>>

\* ---------------------------------------------------------- specification
\* new Chess(game.fen()): the same position, with no history.
FromFen(g) == [g EXCEPT !.history = << >>]

\* No move has been dropped, no timer has run.
NoDrop ==
    [before |-> NewChess, closure |-> NewChess, drop |-> NoMove,
     after |-> NewChess, reply |-> NoMove, set |-> FALSE, shown |-> NewChess]

\* The Game component as mounted: useState(new Chess()), useState(false),
\* no timer pending, makeAiMove not running.
UiInit ==
    [game |-> NewChess, isThinking |-> FALSE, timers |-> << >>,
     phase |-> "rest", cur |-> NoDrop, last |-> NoDrop]

Idle ==
    /\ ui = UiInit
    /\ plays = 0
    /\ pc = "idle"
    /\ entry = "none"
    /\ depth = 0
    /\ moves = << >>
    /\ idx = 0
    /\ bestMove = NoMove
    /\ bestValue = 0
    /\ values = << >>
    /\ isMaximizing = FALSE
    /\ stack = << >>
    /\ retv = 0
    /\ returned = NoFrame
    /\ result = NoMove

Init ==
    /\ variant \in Variants
    /\ game = NewChess
    /\ game0 = NewChess
    /\ Idle

\* The depth arguments: part_001's getBestMove takes none.
Depths(v) == IF v = "part_000" THEN 0 .. MaxDepth ELSE {DEPTH}

Next ==
    \/ \E m \in MoveSet(game.board, game.turn) : Play(m) /\ UNCHANGED ui
    \/ /\ pc = "idle"
       /\ \E d \in Depths(variant) :
             \E p \in Shuffles(Moves(game)) : CallGetBestMove(d, p)
       /\ UNCHANGED ui
    \/ RootApply /\ UNCHANGED ui
    \/ MinimaxEnter /\ UNCHANGED ui
    \/ MinimaxApply /\ UNCHANGED ui
    \/ MinimaxReceive /\ UNCHANGED ui
    \/ MinimaxReturn /\ UNCHANGED ui
    \/ RootReceive /\ UNCHANGED ui
    \/ RootReturn /\ UNCHANGED ui
    \/ getRandomMove /\ UNCHANGED ui

Spec == Init /\ [][Next]_vars

\* ------------------------------------------- evaluateBoard, called alone
\* The piece types of a board handed to evaluateBoard alone: the six of the
\* value table and one that the table does not hold.
EvalTypes == KnownTypes \cup {"x"}
EvalPieces == {Piece(t, c) : t \in EvalTypes, c \in Colors}

\* The boards with at most MaxPieces occupied squares.
EvalBoards ==
    LET Places == {S \in SUBSET Squares : Cardinality(S) <= MaxPieces}
        Fills == UNION {[S -> EvalPieces] : S \in Places}
    IN  {[s \in Squares |-> IF s \in DOMAIN f THEN f[s] ELSE Null] : f \in Fills}

InitBoards ==
    /\ variant \in Variants
    /\ \E b \in EvalBoards, t \in Colors :
          game = [board |-> b, turn |-> t, half |-> 0, history |-> << >>]
    /\ game0 = NewChess
    /\ Idle

\* evaluateBoard(game)
Evaluate ==
    /\ pc = "idle"
    /\ entry' = "evaluateBoard"
    /\ retv' = evaluateBoard(variant, game)
    /\ game0' = game
    /\ pc' = "done"
    /\ UNCHANGED <<variant, game, plays, depth, moves, idx, bestMove,
                   bestValue, values, isMaximizing, stack, returned, result>>

NextEval == Evaluate /\ UNCHANGED ui

SpecEval == InitBoards /\ [][NextEval]_vars

\* The game with every piece given to the other side.
SwapColors(g) ==
    [g EXCEPT !.board = [s \in Squares |->
        IF g.board[s] = Null THEN Null
        ELSE Piece(g.board[s].type, Other(g.board[s].color))]]

\* The game with the square s emptied.
Without(g, s) == [g EXCEPT !.board[s] = Null]

\* Every piece of the board is of a type the value table holds.
TableTypesOnly(v, g) ==
    \A s \in Squares :
        g.board[s] # Null => g.board[s].type \in DOMAIN PIECE_VALUES(v)

Evaluated == pc = "done" /\ entry = "evaluateBoard"

\* C5: evaluateBoard is antisymmetric under colour swap: giving every piece
\* to the other side negates the score; the empty board and the board with
\* only the two kings score 0; the score does not depend on the side to move.
\* (Boards of the piece types chess.js has, which are those of the table.)
C5_Antisymmetric ==
    (Evaluated /\ TableTypesOnly(variant, game)) =>
        /\ evaluateBoard(variant, SwapColors(game)) = Neg(retv)
        /\ evaluateBoard(variant, [game EXCEPT !.turn = Other(game.turn)]) = retv
        /\ game.board = EmptyBoard => retv = 0
        /\ (\E a, b \in Squares :
              /\ a # b
              /\ game.board = [EmptyBoard EXCEPT ![a] = Piece("k", "w"),
                                                 ![b] = Piece("k", "b")])
           => retv = 0

\* A board with pieces of both sides and of different values was evaluated
\* to a score that is not 0.
C5_Witness ==
    /\ Evaluated /\ TableTypesOnly(variant, game)
    /\ retv # 0
    /\ \E a, b \in Squares :
          /\ game.board[a].color = "w" /\ game.board[b].color = "b"
          /\ game.board[a].type # game.board[b].type

SetMax(S) == CHOOSE x \in S : \A y \in S : y <= x
SetMin(S) == CHOOSE x \in S : \A y \in S : x <= y

\* The value of the game tree of depth d below g, every node visited: the
\* evaluation at depth 0 and at a finished game, else the largest (flag) or
\* smallest (~flag) value of the positions one move away.
RECURSIVE Exhaustive(_, _, _, _)
Exhaustive(v, g, d, flag) ==
    IF d = 0 \/ IsGameOver(g) THEN evaluateBoard(v, g)
    ELSE LET below == {Exhaustive(v, Move(g, m), d - 1, ~flag) :
                          m \in MoveSet(g.board, g.turn)}
         IN  IF flag THEN SetMax(below) ELSE SetMin(below)

\* The depth getBestMove searches to: its argument, or DEPTH.
SearchDepth == IF variant = "part_000" THEN depth ELSE DEPTH

\* The value of the move m of the position getBestMove was called on: the
\* exhaustive value, to depth SearchDepth - 1, of the position after m.
MoveValue(m) ==
    LET after == Move(game0, m)
    IN  Exhaustive(variant, after, SearchDepth - 1, Turn(after) = "w")

Searched == pc = "done" /\ entry = "getBestMove"

\* C1: when getBestMove(position, depth), depth >= 1, returns, the position
\* is as it was before the call: same board, same side to move, same legal
\* moves, and no applied move left on the history.
C1_PositionUnchanged ==
    (Searched /\ SearchDepth >= 1) =>
        /\ Board(game) = Board(game0)
        /\ Turn(game) = Turn(game0)
        /\ Moves(game) = Moves(game0)
        /\ game.history = game0.history
        /\ game = game0

\* A depth-3 search in which a cutoff happened has returned a move.
C1_Witness ==
    /\ Searched /\ SearchDepth = 3 /\ result # NoMove
    /\ Len(moves) >= 2 /\ returned.pruned

\* C2: an activation of minimax entered with alpha = -Infinity and
\* beta = +Infinity, at a depth >= 0, returns the value of the exhaustive
\* traversal of the same tree.
C2_PruningKeepsValue ==
    (pc = "ret" /\ returned.depth >= 0
        /\ returned.alpha0 = 0 - Infinity /\ returned.beta0 = Infinity)
    => retv = Exhaustive(variant, returned.game0, returned.depth,
                         returned.isMaximizingPlayer)

\* A full-window activation of depth 2 returns after a cutoff below it.
C2_Witness ==
    /\ pc = "ret" /\ returned.depth = 2 /\ returned.pruned
    /\ returned.alpha0 = 0 - Infinity /\ returned.beta0 = Infinity

\* C3: the move getBestMove returns has the extremal value among the legal
\* moves: the largest when White is to move, the smallest when Black is.
C3_BestMoveIsExtremal ==
    (Searched /\ SearchDepth >= 1 /\ result # NoMove) =>
        \A m \in MoveSet(game0.board, game0.turn) :
            IF Turn(game0) = "w"
            THEN MoveValue(result) >= MoveValue(m)
            ELSE MoveValue(result) <= MoveValue(m)

\* A search has returned from a position whose moves differ in value.
C3_Witness ==
    /\ Searched /\ SearchDepth >= 2 /\ result # NoMove
    /\ \E m \in MoveSet(game0.board, game0.turn) :
          MoveValue(m) # MoveValue(result)

\* C4: getBestMove and getRandomMove return null exactly when the position
\* has no legal move, and then no move was applied; otherwise they return a
\* move of the legal-move list.
C4_NullIffNoMoves ==
    (pc = "done" /\ entry \in {"getBestMove", "getRandomMove"}) =>
        /\ result = NoMove <=> MoveSet(game0.board, game0.turn) = {}
        /\ result = NoMove => game = game0
        /\ result # NoMove => result \in MoveSet(game0.board, game0.turn)

\* getBestMove has returned null.
C4_Witness ==
    /\ Searched /\ result = NoMove
    /\ MoveSet(game0.board, game0.turn) = {}

\* v is at least as good as w for the side that getBestMove moves for.
NotWorse(v, w) == IF Turn(game0) = "w" THEN v >= w ELSE v <= w

\* C7: bestMove is replaced only by a move whose value strictly improves on
\* bestValue, so after any number of moves of the loop bestMove is the first
\* move, in the shuffled order, among those of the best value so far; the
\* move returned is that move.
C7_FirstBestWins ==
    (entry = "getBestMove" /\ pc \in {"root", "done"} /\ idx >= 1) =>
        /\ \E k \in 1 .. idx :
              /\ bestMove = moves[k]
              /\ bestValue = values[k]
              /\ \A j \in 1 .. idx : NotWorse(values[k], values[j])
              /\ \A j \in 1 .. k - 1 : values[j] # values[k]
        /\ pc = "done" => result = bestMove

\* The loop has ended with a later move equal in value to the one kept.
C7_Witness ==
    /\ Searched /\ result # NoMove
    /\ \E k, j \in 1 .. Len(moves) :
          /\ result = moves[k] /\ k < j /\ values[j] = values[k]

\* C8: with a non-empty move list, every value minimax returns for a root
\* move is a finite number and bestMove is not null at the end of the loop,
\* so the fallback to moves[0] is not taken.
C8_FallbackNotTaken ==
    (entry = "getBestMove" /\ pc \in {"root", "done"} /\ Len(moves) > 0) =>
        /\ \A k \in 1 .. Len(values) : IsFinite(values[k])
        /\ idx = Len(moves) => bestMove # NoMove
        /\ idx >= 1 => bestMove # NoMove

\* The loop over three or more moves has ended.
C8_Witness ==
    /\ entry = "getBestMove" /\ pc = "root"
    /\ idx = Len(moves) /\ Len(moves) >= 3 /\ bestMove # NoMove

\* During a call of getBestMove: no activation of minimax has a negative
\* depth, and the moves applied and not undone are at most `depth`.
DepthBounded ==
    /\ \A k \in 1 .. Len(stack) : stack[k].depth >= 0
    /\ Applied <= SearchDepth

\* An activation returns the evaluation only at depth 0 or at a finished game.
LeafAtBase ==
    (pc = "ret" /\ returned.moves = << >>) =>
        (returned.depth = 0 \/ IsGameOver(returned.game0))

\* C9 as stated, for every depth >= 0.
C9_BoundedFromDepth0 ==
    (entry = "getBestMove" /\ SearchDepth >= 0) => DepthBounded

\* C9, amended: for every depth >= 1 the traversal is bounded by depth (no
\* negative depth, at most `depth` moves outstanding), leaves are reached
\* only at depth 0 or at a finished game, and the call returns.
C9_BoundedFromDepth1 ==
    /\ []((entry = "getBestMove" /\ SearchDepth >= 1) =>
            (DepthBounded /\ LeafAtBase))
    /\ ((entry = "getBestMove" /\ SearchDepth >= 1) ~> pc = "done")

\* A depth-3 search stands at a leaf with three moves outstanding.
C9_Witness ==
    /\ entry = "getBestMove" /\ SearchDepth = 3
    /\ pc = "ret" /\ returned.depth = 0 /\ Applied = 3

\* C10: inside one activation, once beta <= alpha holds after a child, no
\* further move is applied: an activation that is to take, or has taken, a
\* further move has beta > alpha, and an activation that returns has taken
\* all its moves or has beta <= alpha.
C10_NoMoveAfterCutoff ==
    \A k \in 1 .. Len(stack) :
        LET f == stack[k]
        IN  /\ (f.pc = "loop" /\ f.idx >= 1) => f.beta > f.alpha
            /\ f.pc = "return" => (f.idx = Len(f.moves) \/ f.beta <= f.alpha)
            /\ f.idx <= Len(f.moves)

\* An activation returns on a cutoff with moves left untaken.
C10_Witness ==
    /\ stack # << >>
    /\ Top.pc = "return" /\ Top.idx >= 1 /\ Top.idx < Len(Top.moves)
    /\ Top.beta <= Top.alpha

\* getBestMove runs to completion once called: nothing suspends it.
LiveSpec == Init /\ [][Next]_vars /\ WF_vars(Next)

\* C11: during a call of getBestMove every undo reverses the apply of the
\* same node: an undo is about to be made only with a move outstanding (one
\* per caller on the stack and one of the caller that undoes), a minimax call
\* that has returned left the position as it was at its entry, cutoff or
\* not, and after the undo the caller is back at its own entry position.
C11_UndoMatchesApply ==
    entry = "getBestMove" =>
        /\ pc = "ret" =>
              /\ Applied >= 1
              /\ Applied = Len(stack) + 1
              /\ game = returned.game0
        /\ (pc = "minimax" /\ stack # << >>) =>
              /\ Applied = Len(stack)
              /\ game = Top.game0
        /\ pc \in {"root", "done"} => game = game0
        /\ \A k \in 1 .. Len(stack) :
              Len(stack[k].game0.history) = Len(game0.history) + k

\* A minimax call cut short by a cutoff has returned, two moves outstanding.
C11_Witness ==
    /\ entry = "getBestMove" /\ pc = "ret"
    /\ returned.idx >= 1 /\ returned.idx < Len(returned.moves)
    /\ Applied >= 2
    /\ game = returned.game0

\* C12: at the entry of every minimax call made during getBestMove the flag
\* isMaximizingPlayer is true exactly when White is to move in the position
\* of the call; the flag of part_000 (game.turn() === 'w' after the move) and
\* the flag of part_001 (!isMaximizing) are the same at the root call.
C12_FlagIsWhiteToMove ==
    entry = "getBestMove" =>
        /\ \A k \in 1 .. Len(stack) :
              stack[k].isMaximizingPlayer = (Turn(stack[k].game0) = "w")
        /\ pc = "ret" => returned.isMaximizingPlayer = (Turn(returned.game0) = "w")
        /\ Len(stack) >= 1 =>
              RootFlag("part_000", stack[1].game0, isMaximizing)
                  = RootFlag("part_001", stack[1].game0, isMaximizing)

\* part_001 stands at the entry of a minimax call three moves deep, for a
\* search that Black started.
C12_Witness ==
    /\ entry = "getBestMove" /\ variant = "part_001" /\ pc = "minimax"
    /\ Len(stack) = 3 /\ Top.pc = "entry"
    /\ Turn(game0) = "b" /\ ~isMaximizing
    /\ Top.isMaximizingPlayer /\ ~stack[2].isMaximizingPlayer

\* ------------------------------------------------- minimax, called alone
\* The scores one step of the value table apart: 1 (part_000), 10 (part_001).
Unit(v) == PIECE_VALUES(v)["p"]

\* The bounds a window is drawn from: the two infinities and scores around
\* the material balances of the game.
WindowBounds(v) ==
    {0 - Infinity, Infinity} \cup {k * Unit(v) : k \in {0 - 3, 0, 2, 5}}

\* minimax(game, d, alpha, beta, game.turn() === 'w'), at its first line.
CallMinimax(d, alpha, beta) ==
    /\ pc = "idle"
    /\ entry' = "minimax"
    /\ depth' = d
    /\ game0' = game
    /\ stack' = <<Frame(game, d, alpha, beta, Turn(game) = "w")>>
    /\ pc' = "minimax"
    /\ UNCHANGED <<variant, game, plays, moves, idx, bestMove, bestValue,
                   values, isMaximizing, retv, returned, result>>

\* The outermost minimax call has handed its value to its caller.
MinimaxDone ==
    /\ pc = "ret" /\ stack = << >> /\ entry = "minimax"
    /\ pc' = "done"
    /\ UNCHANGED <<variant, game, plays, entry, depth, moves, idx, bestMove,
                   bestValue, values, isMaximizing, stack, retv, returned,
                   result, game0>>

NextMinimax ==
    \/ \E m \in MoveSet(game.board, game.turn) : Play(m) /\ UNCHANGED ui
    \/ /\ pc = "idle"
       /\ \E d \in 0 .. MaxDepth :
             \E alpha, beta \in WindowBounds(variant) :
                 alpha < beta /\ CallMinimax(d, alpha, beta)
       /\ UNCHANGED ui
    \/ MinimaxEnter /\ UNCHANGED ui
    \/ MinimaxApply /\ UNCHANGED ui
    \/ MinimaxReceive /\ UNCHANGED ui
    \/ MinimaxReturn /\ UNCHANGED ui
    \/ MinimaxDone /\ UNCHANGED ui

SpecMinimax == Init /\ [][NextMinimax]_vars

\* The exhaustive value of the tree below the activation that has returned.
ExactOfReturned ==
    Exhaustive(variant, returned.game0, returned.depth,
               returned.isMaximizingPlayer)

\* C13: for minimax entered with a window alpha < beta, the value v it
\* returns bounds the exhaustive value m of the node: v = m when
\* alpha < v < beta, m <= v when v <= alpha, m >= v when v >= beta.
C13_SoundBound ==
    (entry = "minimax" /\ pc = "ret" /\ returned.depth >= 0
        /\ returned.alpha0 < returned.beta0) =>
        /\ (returned.alpha0 < retv /\ retv < returned.beta0)
              => retv = ExactOfReturned
        /\ retv <= returned.alpha0 => ExactOfReturned <= retv
        /\ retv >= returned.beta0 => ExactOfReturned >= retv

\* A call with a finite window has returned, after a cutoff, a value outside
\* the window that is not the exhaustive value.
C13_Witness ==
    /\ entry = "minimax" /\ pc = "ret" /\ stack = << >>
    /\ IsFinite(returned.alpha0) /\ IsFinite(returned.beta0)
    /\ returned.pruned
    /\ (retv <= returned.alpha0 \/ retv >= returned.beta0)
    /\ retv # ExactOfReturned

\* ------------------------------------------------- the auto-play Game
\* getBestMove(gameCopy) with no depth argument: part_000's default.
DefaultDepth == 3

GameDepth(v) == IF v = "part_000" THEN DefaultDepth ELSE DEPTH

\* The status effect, run after a render in which `game` changed: a finished
\* game clears isThinking.
StatusEffect(g, thinking) == IF IsGameOver(g) THEN FALSE ELSE thinking

\* Mutant of Closure: the timer reads the game state current when it fires.
ClosureFresh(u, committed) == committed

\* The `game` that the makeAiMove handed to setTimeout reads: the one of the
\* render in which onDrop ran.
Closure(u, committed) == u.game

\* onDrop(sourceSquare, targetSquare) for a move chess.js accepts; a move it
\* rejects throws in makeAMove, and onDrop returns false with nothing set.
\* makeAMove copies the rendered game, moves on the copy and sets it;
\* setTimeout(makeAiMove, 200) queues the makeAiMove of this render.
OnDrop(m) ==
    /\ pc = "idle" /\ ui.phase = "rest"
    /\ ~ui.isThinking
    /\ plays < MaxPlay
    /\ LET gameCopy == Move(FromFen(ui.game), m)
           timer == [before |-> ui.game, closure |-> Closure(ui, gameCopy),
                     drop |-> m, after |-> gameCopy, reply |-> NoMove,
                     set |-> FALSE, shown |-> NewChess]
       IN  ui' = [ui EXCEPT !.game = gameCopy,
                            !.isThinking = StatusEffect(gameCopy, TRUE),
                            !.timers = Append(@, timer)]
    /\ plays' = plays + 1
    /\ UNCHANGED <<variant, game, pc, entry, depth, moves, idx, bestMove,
                   bestValue, values, isMaximizing, stack, retv, returned,
                   result, game0>>

\* The timer fires: makeAiMove up to the call of getBestMove.
MakeAiMoveStart ==
    /\ pc = "idle" /\ ui.phase = "rest"
    /\ ui.timers # << >>
    /\ LET timer == Head(ui.timers)
           gameCopy == FromFen(timer.closure)
       IN  IF IsGameOver(gameCopy)
           THEN /\ ui' = [ui EXCEPT !.isThinking = FALSE,
                                    !.timers = Tail(@),
                                    !.last = timer]
                /\ UNCHANGED game
           ELSE /\ ui' = [ui EXCEPT !.timers = Tail(@),
                                    !.phase = "copy",
                                    !.cur = timer]
                /\ game' = gameCopy
    /\ UNCHANGED <<variant, plays, pc, entry, depth, moves, idx, bestMove,
                   bestValue, values, isMaximizing, stack, retv, returned,
                   result, game0>>

\* const bestMove = getBestMove(gameCopy)
MakeAiMoveCall ==
    /\ ui.phase = "copy"
    /\ \E p \in Shuffles(Moves(game)) :
           CallGetBestMove(GameDepth(variant), p)
    /\ ui' = [ui EXCEPT !.phase = "search"]

\* if (bestMove) { gameCopy.move(bestMove); setGame(gameCopy); }
\* finally { setIsThinking(false); }  The engine's locals are dropped.
MakeAiMoveFinish ==
    /\ pc = "done" /\ ui.phase = "search"
    /\ LET moved == Move(game, result)
           done == [ui.cur EXCEPT !.reply = result,
                                  !.set = (result # NoMove),
                                  !.shown = IF result # NoMove THEN moved
                                            ELSE NewChess]
       IN  ui' = [ui EXCEPT !.game = IF result # NoMove THEN moved ELSE @,
                            !.isThinking = FALSE,
                            !.phase = "rest",
                            !.cur = NoDrop,
                            !.last = done]
    /\ game' = NewChess
    /\ game0' = NewChess
    /\ pc' = "idle"
    /\ entry' = "none"
    /\ depth' = 0
    /\ moves' = << >>
    /\ idx' = 0
    /\ bestMove' = NoMove
    /\ bestValue' = 0
    /\ values' = << >>
    /\ isMaximizing' = FALSE
    /\ stack' = << >>
    /\ retv' = 0
    /\ returned' = NoFrame
    /\ result' = NoMove
    /\ UNCHANGED <<variant, plays>>

NextGame ==
    \/ /\ pc = "idle" /\ ui.phase = "rest"
       /\ \E m \in MoveSet(ui.game.board, ui.game.turn) : OnDrop(m)
    \/ MakeAiMoveStart
    \/ MakeAiMoveCall
    \/ RootApply /\ UNCHANGED ui
    \/ MinimaxEnter /\ UNCHANGED ui
    \/ MinimaxApply /\ UNCHANGED ui
    \/ MinimaxReceive /\ UNCHANGED ui
    \/ MinimaxReturn /\ UNCHANGED ui
    \/ RootReceive /\ UNCHANGED ui
    \/ RootReturn /\ UNCHANGED ui
    \/ MakeAiMoveFinish

SpecGame == Init /\ [][NextGame]_vars

\* The side that made the move m in the position g.
Mover(g, m) == g.board[m.from].color

\* C14: once makeAiMove has set the game after an accepted drop, the position
\* it set is the one after the human's move followed by a legal move of the
\* other side: the reply is made by the side the human did not play, from
\* the position the drop produced.
C14_ReplyFollowsHumanMove ==
    ui.last.set =>
        /\ ui.last.reply \in MoveSet(ui.last.after.board, ui.last.after.turn)
        /\ Mover(ui.last.after, ui.last.reply)
               # Mover(ui.last.before, ui.last.drop)
        /\ ui.last.shown.board
               = MoveBoard(ui.last.after.board, ui.last.reply)
        /\ ui.last.shown.turn = ui.last.before.turn

\* The human's move is gone: the game the engine set is the position before
\* the drop plus a move of the human's own side.
C14_HumanMoveReplaced ==
    /\ ui.last.set
    /\ Mover(ui.last.before, ui.last.reply) = Mover(ui.last.before, ui.last.drop)
    /\ ui.last.shown.board = MoveBoard(ui.last.before.board, ui.last.reply)
    /\ ui.last.shown.turn = ui.last.after.turn
    /\ ui.game = ui.last.shown

====
